---- MODULE Spec2Model ----
(***************************************************************************)
(* Robinson-triangle Penrose (P3) tiling generator of the repository       *)
(* (RobinsonTriangle / PenroseTiling, src/unnamed/part_008).               *)
(*                                                                         *)
(* Numbers.  Every coordinate the generator produces lies in the module    *)
(*     (1/2) Z[phi]  +  (kappa/2) Z[phi],   kappa = 2 sin 36 deg,          *)
(* because cos and sin of the decagon angles do, and the only scaling      *)
(* factor is PHI/(1+PHI), an element of Z[phi].  A number is therefore     *)
(* the tuple <<a, b, c, d>> standing for (a + b*phi + kappa*(c + d*phi))/2.*)
(* The tuple is unique (1, phi, kappa, kappa*phi are independent over Q),  *)
(* so equality of numbers is equality of tuples.  Arithmetic is exact:     *)
(* IEEE rounding of the JavaScript doubles is not modelled.                *)
(***************************************************************************)
EXTENDS Integers, Sequences, FiniteSets, TLC

\* ------------------------------------------------------------------ bounds
MaxGen == 4        \* largest config.generations explored
MaxSize == 2       \* largest config.initialSize explored
MaxCanvas == 1     \* largest canvas.width / canvas.height explored
MaxCoord == 2      \* vertices of the free-standing input triangle: 0..MaxCoord
MaxDepth == 1      \* how many times a child is fed back as the next input

\* ------------------------------------------------- golden integers a + b*phi
GAdd(x, y) == <<x[1] + y[1], x[2] + y[2]>>
GSub(x, y) == <<x[1] - y[1], x[2] - y[2]>>
\* phi^2 = phi + 1
GMul(x, y) == <<x[1] * y[1] + x[2] * y[2],
                x[1] * y[2] + x[2] * y[1] + x[2] * y[2]>>
\* kappa^2 = 4 sin^2(36 deg) = 3 - phi
GKappa2(x) == <<3 * x[1] - x[2], 2 * x[2] - x[1]>>
\* Galois conjugate (phi -> 1 - phi) and norm a^2 + ab - b^2
GConj(x) == <<x[1] + x[2], 0 - x[2]>>
GNorm(x) == x[1] * x[1] + x[1] * x[2] - x[2] * x[2]
\* sign of a + b*phi = ((2a + b) + b*sqrt5)/2
GSign(x) ==
    LET m == 2 * x[1] + x[2]
        b == x[2]
    IN  IF m = 0 /\ b = 0 THEN 0
        ELSE IF m >= 0 /\ b >= 0 THEN 1
        ELSE IF m <= 0 /\ b <= 0 THEN -1
        ELSE IF m > 0 THEN (IF m * m > 5 * b * b THEN 1 ELSE -1)
        ELSE (IF 5 * b * b > m * m THEN 1 ELSE -1)

\* ------------------------------------------------------------------ numbers
Ev(x) == <<x[1], x[2]>>
Od(x) == <<x[3], x[4]>>
Num(e, o) == <<e[1], e[2], o[1], o[2]>>
\* the integer n, and the quotient n/2 (canvas.width / 2)
Whole(n) == <<2 * n, 0, 0, 0>>
Half(n) == <<n, 0, 0, 0>>
Zero == Whole(0)
One == Whole(1)

NAdd(x, y) == <<x[1] + y[1], x[2] + y[2], x[3] + y[3], x[4] + y[4]>>
NSub(x, y) == <<x[1] - y[1], x[2] - y[2], x[3] - y[3], x[4] - y[4]>>
NNeg(x) == <<0 - x[1], 0 - x[2], 0 - x[3], 0 - x[4]>>
\* product of the numerators: four times the product of the two numbers
NProd(x, y) ==
    Num(GAdd(GMul(Ev(x), Ev(y)), GKappa2(GMul(Od(x), Od(y)))),
        GAdd(GMul(Ev(x), Od(y)), GMul(Od(x), Ev(y))))
\* x * y ; exact whenever one factor is in Z[phi] + kappa Z[phi]
NMul(x, y) ==
    LET p == NProd(x, y)
    IN  <<p[1] \div 2, p[2] \div 2, p[3] \div 2, p[4] \div 2>>
\* x / y for a divisor y in (1/2) Z[phi] whose inverse stays in the module
NDiv(x, y) ==
    LET n == GNorm(Ev(y))
        p == NProd(x, Num(GConj(Ev(y)), <<0, 0>>))
    IN  <<(2 * p[1]) \div n, (2 * p[2]) \div n, (2 * p[3]) \div n, (2 * p[4]) \div n>>
\* sign of (e + kappa*o)/2
NSign(x) ==
    LET se == GSign(Ev(x))
        so == GSign(Od(x))
        d  == GSign(GSub(GMul(Ev(x), Ev(x)), GKappa2(GMul(Od(x), Od(x)))))
    IN  IF se = so \/ so = 0 THEN se
        ELSE IF se = 0 THEN so
        ELSE IF d > 0 THEN se ELSE so
NAbs(x) == IF NSign(x) < 0 THEN NNeg(x) ELSE x

\* Math.sqrt(5) = 2*phi - 1
Sqrt5 == <<-2, 4, 0, 0>>
\* const PHI = (1 + Math.sqrt(5)) / 2
PHI == NDiv(NAdd(One, Sqrt5), Whole(2))
\* const PSI = 1 / PHI
PSI == NDiv(One, PHI)

\* Math.cos / Math.sin at the angle (2*PI*k)/10, k taken mod 10
Cos36(k) ==
    LET j == k % 10
    IN  IF j = 0 THEN <<2, 0, 0, 0>>
        ELSE IF j \in {1, 9} THEN <<0, 1, 0, 0>>
        ELSE IF j \in {2, 8} THEN <<-1, 1, 0, 0>>
        ELSE IF j \in {3, 7} THEN <<1, -1, 0, 0>>
        ELSE IF j \in {4, 6} THEN <<0, -1, 0, 0>>
        ELSE <<-2, 0, 0, 0>>
Sin36(k) ==
    LET j == k % 10
    IN  IF j \in {0, 5} THEN Zero
        ELSE IF j \in {1, 4} THEN <<0, 0, 1, 0>>
        ELSE IF j \in {2, 3} THEN <<0, 0, 0, 1>>
        ELSE IF j \in {6, 9} THEN <<0, 0, -1, 0>>
        ELSE <<0, 0, 0, -1>>
\* Math.cos / Math.sin at the angle (2*PI*k)/10 - PI/2
MathCos(k) == Sin36(k)
MathSin(k) == NNeg(Cos36(k))

\* ------------------------------------------------------------ class Complex
Complex(real, imag) == [real |-> real, imag |-> imag]
add(z, other) == Complex(NAdd(z.real, other.real), NAdd(z.imag, other.imag))
subtract(z, other) == Complex(NSub(z.real, other.real), NSub(z.imag, other.imag))
scale(z, factor) == Complex(NMul(z.real, factor), NMul(z.imag, factor))

\* --------------------------------------------------- class RobinsonTriangle
\* type: 0 = thin, 1 = thick
Thin == 0
Thick == 1
RobinsonTriangle(A, B, C, type, generation) ==
    [A |-> A, B |-> B, C |-> C, type |-> type, generation |-> generation]

\* variant: the factor is PHI instead of PHI / (1 + PHI)
GoldenPoint_factorPHI(start, end) ==
    add(start, scale(subtract(end, start), PHI))

\* start + (end - start) * (PHI / (1 + PHI))
GoldenPoint(start, end) ==
    add(start, scale(subtract(end, start), NDiv(PHI, NAdd(One, PHI))))

\* variant: P measured from B instead of from A
subdivideThin_fromB(t) ==
    LET nextGen == t.generation + 1
        P == GoldenPoint(t.B, t.A)
    IN  << RobinsonTriangle(t.C, P, t.B, 0, nextGen),
           RobinsonTriangle(P, t.C, t.A, 1, nextGen) >>

\* RobinsonTriangle.subdivide(): the thin branch
subdivideThin(t) ==
    LET nextGen == t.generation + 1
        P == GoldenPoint(t.A, t.B)
    IN  << RobinsonTriangle(t.C, P, t.B, 0, nextGen),
           RobinsonTriangle(P, t.C, t.A, 1, nextGen) >>

\* variant: Q on A->C and R on A->B, as the comment in the source words it
subdivideThick_asCommented(t) ==
    LET nextGen == t.generation + 1
        Q == GoldenPoint(t.A, t.C)
        R == GoldenPoint(t.A, t.B)
    IN  << RobinsonTriangle(R, t.C, t.A, 1, nextGen),
           RobinsonTriangle(Q, R, t.B, 1, nextGen),
           RobinsonTriangle(R, Q, t.A, 0, nextGen) >>

\* RobinsonTriangle.subdivide(): the thick branch (the else branch)
subdivideThick(t) ==
    LET nextGen == t.generation + 1
        Q == GoldenPoint(t.B, t.A)
        R == GoldenPoint(t.B, t.C)
    IN  << RobinsonTriangle(R, t.C, t.A, 1, nextGen),
           RobinsonTriangle(Q, R, t.B, 1, nextGen),
           RobinsonTriangle(R, Q, t.A, 0, nextGen) >>

\* variant: the test on this.type inverted
subdivide_inverted(t) == IF t.type # 0 THEN subdivideThin(t) ELSE subdivideThick(t)

subdivide(t) == IF t.type = 0 THEN subdivideThin(t) ELSE subdivideThick(t)

\* ------------------------------------------------------ class PenroseTiling
\* new Complex(this.canvas.width / 2, this.canvas.height / 2)
Center(cv) == Complex(Half(cv.width), Half(cv.height))

\* the decagon point at angle (2*PI*k)/10 - PI/2
SunPoint(center, radius, k) ==
    add(center, Complex(NMul(Whole(radius), MathCos(k)),
                        NMul(Whole(radius), MathSin(k))))

\* variant: the orientation is not alternated
SunTriangle_sameOrder(center, radius, i) ==
    RobinsonTriangle(center, SunPoint(center, radius, i),
                     SunPoint(center, radius, i + 1), 1, 0)

\* one pass of the for loop of initializeSunConfiguration(): the triangle pushed
SunTriangle(center, radius, i) ==
    LET B == SunPoint(center, radius, i)
        C == SunPoint(center, radius, i + 1)
    IN  IF i % 2 = 0
        THEN RobinsonTriangle(center, B, C, 1, 0)
        ELSE RobinsonTriangle(center, C, B, 1, 0)

\* variant: this.triangles is not emptied first
initializeSunConfiguration_noReset(ts, cv, cfg) ==
    ts \o [i \in 1..10 |-> SunTriangle(Center(cv), cfg.initialSize, i - 1)]

\* variant: the loop stops one short (i < 9)
initializeSunConfiguration_nine(ts, cv, cfg) ==
    [i \in 1..9 |-> SunTriangle(Center(cv), cfg.initialSize, i - 1)]

\* initializeSunConfiguration() on the collection ts: this.triangles = [],
\* then ten pushes; the result is the new this.triangles
initializeSunConfiguration(ts, cv, cfg) ==
    LET emptied == << >>
    IN  emptied \o [i \in 1..10 |-> SunTriangle(Center(cv), cfg.initialSize, i - 1)]

\* one round of generate(): newTriangles.push(...triangle.subdivide()) over all
RECURSIVE subdivideAll(_)
subdivideAll(ts) ==
    IF ts = << >> THEN << >>
    ELSE IF Len(ts) = 1 THEN subdivide(ts[1])
    ELSE LET half == Len(ts) \div 2
         IN  subdivideAll(SubSeq(ts, 1, half))
                 \o subdivideAll(SubSeq(ts, half + 1, Len(ts)))

\* countRhombi()
countRhombi(ts) ==
    LET thick == Cardinality({i \in 1..Len(ts) : ts[i].type = 1})
        thin  == Cardinality({i \in 1..Len(ts) : ts[i].type # 1})
    IN  [thick |-> thick \div 2, thin |-> thin \div 2]

\* ------------------------------------------------------------------- state
VARIABLES
    canvas,     \* this.canvas: [width, height]
    config,     \* this.config: [generations, initialSize]
    triangles,  \* this.triangles
    pc,         \* "idle", or "loop" while generate() is inside its for loop
    gen,        \* the loop variable gen of generate()
    done,       \* the last method that changed this.triangles and returned
    before,     \* how many triangles the collection held when it was called
    rhombi,     \* what countRhombi() returned since then, or NoResult
    tri,        \* a free-standing RobinsonTriangle
    children,   \* what tri.subdivide() returned, << >> before the call
    depth,      \* how many times a child was taken as the next tri
    census,     \* generate() followed by kinds only: how many of each kind
    ra,         \* the frame of a call of rationalApproximation()
    cls,        \* a call of a classifier and the object it returned
    flat,       \* a FlatTorusApp object and the frames it has requested
    torus       \* a TorusApp object

vars == <<canvas, config, triangles, pc, gen, done, before, rhombi,
          tri, children, depth, census, ra, cls, flat, torus>>
tilingVars == <<canvas, config, triangles, pc, gen, done, before, rhombi>>
triVars == <<tri, children, depth>>
otherVars == <<census, ra, cls, flat, torus>>

NoResult == [thick |-> -1, thin |-> -1]
Origin == Complex(Zero, Zero)
NoTriangle == RobinsonTriangle(Origin, Origin, Origin, 1, 0)

Canvases == [width : 0..MaxCanvas, height : 0..MaxCanvas]
\* generations -1 and initialSize 0 are the values the constructor accepts
\* although no tiling is meant by them
Configs == [generations : -1..MaxGen, initialSize : 0..MaxSize]

\* constructor(canvas, config): this.triangles = []
TilingNew ==
    /\ canvas \in Canvases
    /\ config \in Configs
    /\ triangles = << >>
    /\ pc = "idle"
    /\ gen = 0
    /\ done = "constructor"
    /\ before = 0
    /\ rhombi = NoResult

TilingIdle ==
    /\ canvas = [width |-> 0, height |-> 0]
    /\ config = [generations |-> 0, initialSize |-> 0]
    /\ triangles = << >>
    /\ pc = "idle"
    /\ gen = 0
    /\ done = "constructor"
    /\ before = 0
    /\ rhombi = NoResult

TriIdle ==
    /\ tri = NoTriangle
    /\ children = << >>
    /\ depth = 0

NoCensus == [pc |-> "idle", generations |-> 0, initialSize |-> 0, gen |-> 0,
             thick |-> 0, thin |-> 0, last |-> 0]

\* no call of rationalApproximation() is in progress; a number is a pair
\* <<numerator, denominator>>
NoFrame == [pc |-> "idle", arg |-> <<0, 1>>, maxDenominator |-> 0,
            sign |-> 1, x |-> <<0, 1>>, a |-> 0, b |-> <<0, 1>>,
            h |-> 0, h1 |-> 0, h2 |-> 0, k |-> 0, k1 |-> 0, k2 |-> 0,
            p |-> 0, q |-> 0]
NoObject == [isRational |-> FALSE, p |-> <<0, 1>>, q |-> <<0, 1>>,
             classification |-> "", symbolName |-> "null"]
NoCall == [fn |-> "none", slope |-> <<0, 1>>, p |-> <<0, 1>>, q |-> <<0, 1>>,
           tolerance |-> 0, out |-> NoObject]
CensusIdle == census = NoCensus
ApproxIdle == ra = NoFrame /\ cls = NoCall
\* no page of the torus apps is loaded
NoApp == [version |-> "none"]
AppIdle == flat = NoApp /\ torus = NoApp
OthersIdle == CensusIdle /\ ApproxIdle /\ AppIdle

\* initializeSunConfiguration() called on its own
InitializeSunConfiguration ==
    /\ pc = "idle"
    /\ triangles' = initializeSunConfiguration(triangles, canvas, config)
    /\ done' = "initializeSunConfiguration"
    /\ before' = Len(triangles)
    /\ rhombi' = NoResult
    /\ UNCHANGED <<canvas, config, pc, gen, tri, children, depth>>
    /\ UNCHANGED otherVars

\* generate(): this.initializeSunConfiguration(); gen = 0
GenerateEnter ==
    /\ pc = "idle"
    /\ triangles' = initializeSunConfiguration(triangles, canvas, config)
    /\ pc' = "loop"
    /\ gen' = 0
    /\ done' = "generating"
    /\ before' = Len(triangles)
    /\ rhombi' = NoResult
    /\ UNCHANGED <<canvas, config, tri, children, depth>>
    /\ UNCHANGED otherVars

\* variant: the children are pushed onto the old collection
nextRound_keepOld(ts) == ts \o subdivideAll(ts)

\* the body of the for loop of generate(): this.triangles = newTriangles
nextRound(ts) == subdivideAll(ts)

\* generate(): one round, gen < this.config.generations
GenerateRound ==
    /\ pc = "loop"
    /\ gen < config.generations
    /\ triangles' = nextRound(triangles)
    /\ gen' = gen + 1
    /\ UNCHANGED <<canvas, config, pc, done, before, rhombi, tri, children, depth>>
    /\ UNCHANGED otherVars

\* generate(): the loop condition fails, the method returns
GenerateReturn ==
    /\ pc = "loop"
    /\ ~(gen < config.generations)
    /\ pc' = "idle"
    /\ done' = "generate"
    /\ UNCHANGED <<canvas, config, triangles, gen, before, rhombi, tri, children, depth>>
    /\ UNCHANGED otherVars

\* countRhombi()
CountRhombi ==
    /\ pc = "idle"
    /\ rhombi' = countRhombi(triangles)
    /\ UNCHANGED <<canvas, config, triangles, pc, gen, done, before, tri, children, depth>>
    /\ UNCHANGED otherVars

Init == TilingNew /\ TriIdle /\ OthersIdle

Next ==
    \/ InitializeSunConfiguration
    \/ GenerateEnter
    \/ GenerateRound
    \/ GenerateReturn
    \/ CountRhombi

Spec == Init /\ [][Next]_vars

\* ---------------------------------- subdivide() as a function of its input
GridPoints == {Complex(Whole(x), Whole(y)) : x \in 0..MaxCoord, y \in 0..MaxCoord}

SubInit ==
    /\ TilingIdle
    /\ \E A \in GridPoints, B \in GridPoints, C \in GridPoints,
          type \in {0, 1}, generation \in 0..MaxDepth :
            tri = RobinsonTriangle(A, B, C, type, generation)
    /\ children = << >>
    /\ depth = 0
    /\ OthersIdle

\* children = tri.subdivide()
Subdivide ==
    /\ children = << >>
    /\ children' = subdivide(tri)
    /\ UNCHANGED <<tri, depth>>
    /\ UNCHANGED tilingVars
    /\ UNCHANGED otherVars

\* a child becomes the next input
Descend ==
    /\ children # << >>
    /\ depth < MaxDepth
    /\ \E i \in 1..Len(children) : tri' = children[i]
    /\ children' = << >>
    /\ depth' = depth + 1
    /\ UNCHANGED tilingVars
    /\ UNCHANGED otherVars

SubNext == Subdivide \/ Descend

SubSpec == SubInit /\ [][SubNext]_vars

\* ------------------------------------------------------- geometry of claims
\* x times a golden integer g
NScaleG(x, g) == Num(GMul(Ev(x), g), GMul(Od(x), g))
\* x * phi^2
Phi2Times(x) == NScaleG(x, <<1, 1>>)

\* squared distance |XY|^2 (in units of 1/4)
Dist2(X, Y) ==
    LET d == subtract(Y, X)
    IN  NAdd(NProd(d.real, d.real), NProd(d.imag, d.imag))
\* (Y - X) x (Z - X) and (Y - X) . (Z - X) (in units of 1/4)
Cross(X, Y, Z) ==
    LET u == subtract(Y, X)
        v == subtract(Z, X)
    IN  NSub(NProd(u.real, v.imag), NProd(u.imag, v.real))
Dot(X, Y, Z) ==
    LET u == subtract(Y, X)
        v == subtract(Z, X)
    IN  NAdd(NProd(u.real, v.real), NProd(u.imag, v.imag))
\* twice the area of t (in units of 1/4)
Area2(t) == NAbs(Cross(t.A, t.B, t.C))
RECURSIVE SumArea2(_)
SumArea2(ts) == IF ts = << >> THEN Zero ELSE NAdd(Area2(Head(ts)), SumArea2(Tail(ts)))
\* P lies on the closed segment from X to Y
OnSegment(P, X, Y) ==
    /\ Cross(X, Y, P) = Zero
    /\ NSign(Dot(X, Y, P)) >= 0
    /\ NSign(Dot(Y, X, P)) >= 0
\* P divides start -> end in the golden ratio measured from start:
\* (P - start) * PHI = end - start
DividesFrom(P, start, end) ==
    scale(subtract(P, start), PHI) = subtract(end, start)

Called == children # << >>
NextGeneration == tri.generation + 1

\* C1: subdivide() on a Thin triangle (A, B, C) of generation n returns exactly
\* two children, in this order: (C, P, B) Thin and (P, C, A) Thick, both of
\* generation n + 1, P being the golden division point of A -> B measured from A.
C1_ThinSubdivision ==
    (Called /\ tri.type = Thin) =>
        /\ Len(children) = 2
        /\ LET P == children[1].B
           IN  /\ DividesFrom(P, tri.A, tri.B)
               /\ children[1] = RobinsonTriangle(tri.C, P, tri.B, Thin, NextGeneration)
               /\ children[2] = RobinsonTriangle(P, tri.C, tri.A, Thick, NextGeneration)

C1_Witness ==
    /\ Called
    /\ tri.type = Thin
    /\ tri.generation = 2
    /\ depth = 1
    /\ NSign(Area2(tri)) > 0

RECURSIVE ThickAfter(_), ThinAfter(_)
ThickAfter(g) == IF g = 0 THEN 10 ELSE 2 * ThickAfter(g - 1) + ThinAfter(g - 1)
ThinAfter(g) == IF g = 0 THEN 0 ELSE ThickAfter(g - 1) + ThinAfter(g - 1)
GrowthLaw(g) == ThickAfter(g) + ThinAfter(g)
KnownCounts == <<10, 30, 80, 210, 550, 1440, 3770>>

NumThick(ts) == Cardinality({i \in 1..Len(ts) : ts[i].type = Thick})
NumThin(ts) == Cardinality({i \in 1..Len(ts) : ts[i].type = Thin})
Generated == done = "generate" /\ config.generations >= 0
SunBuilt == done = "initializeSunConfiguration" \/ (pc = "loop" /\ gen = 0)

\* C3: growth law: generate() with g >= 0 generations leaves exactly
\* ThickAfter(g) + ThinAfter(g) triangles (10, 30, 80, 210, 550, 1440, 3770 for
\* g = 0..6), whatever initialSize and the canvas centre are; the same count
\* holds after each round of the loop.
C3_GrowthLaw ==
    /\ pc = "loop" => Len(triangles) = GrowthLaw(gen)
    /\ Generated =>
        /\ Len(triangles) = GrowthLaw(config.generations)
        /\ NumThick(triangles) = ThickAfter(config.generations)
        /\ NumThin(triangles) = ThinAfter(config.generations)
        /\ config.generations <= 6 =>
               Len(triangles) = KnownCounts[config.generations + 1]

C3_Witness ==
    /\ Generated
    /\ config.generations >= 3
    /\ config.initialSize > 0
    /\ canvas.width # canvas.height

\* C4: initializeSunConfiguration() leaves exactly 10 triangles, all Thick, of
\* generation 0 and with apex A at the canvas centre, whatever the collection
\* held before.
C4_SunContract ==
    SunBuilt =>
        /\ Len(triangles) = 10
        /\ \A i \in 1..Len(triangles) :
               /\ triangles[i].type = Thick
               /\ triangles[i].generation = 0
               /\ triangles[i].A = Complex(Half(canvas.width), Half(canvas.height))

C4_Witness ==
    /\ done = "initializeSunConfiguration"
    /\ before > 10

\* the decagon point P_k: centre + radius * (cos, sin) at angle index k mod 10
DecagonPoint(k) == SunPoint(Center(canvas), config.initialSize, k % 10)

\* C5: in the sun, triangle i is (centre, P_i, P_(i+1)) for even i and
\* (centre, P_(i+1), P_i) for odd i, for every i in 0..9.
C5_SunAlternation ==
    SunBuilt =>
        \A i \in 0..9 :
            LET t == triangles[i + 1]
            IN  <<t.A, t.B, t.C>> =
                    IF i % 2 = 0
                    THEN <<Center(canvas), DecagonPoint(i), DecagonPoint(i + 1)>>
                    ELSE <<Center(canvas), DecagonPoint(i + 1), DecagonPoint(i)>>

C5_Witness ==
    /\ SunBuilt
    /\ config.initialSize > 0
    /\ triangles[2].B = DecagonPoint(2)
    /\ triangles[2].B # triangles[2].C
    /\ triangles[10].B = DecagonPoint(0)

TriangleAfter(i) == triangles[((i + 1) % 10) + 1]

\* C6 as stated: in the sun, the C vertex of triangle i equals the B vertex of
\* triangle (i + 1) mod 10, for every i in 0..9.
C6_SunClosureAsStated ==
    SunBuilt =>
        \A i \in 0..9 : triangles[i + 1].C = TriangleAfter(i).B

\* C6 amended: in the sun, triangle i and triangle (i + 1) mod 10 share the
\* decagon point P_(i+1) as a base vertex, which is the C vertex of both for
\* even i and the B vertex of both for odd i; so the base edges, taken as
\* undirected segments, form a closed decagon.
C6_SunClosure ==
    SunBuilt =>
        \A i \in 0..9 :
            IF i % 2 = 0
            THEN /\ triangles[i + 1].C = DecagonPoint(i + 1)
                 /\ TriangleAfter(i).C = DecagonPoint(i + 1)
            ELSE /\ triangles[i + 1].B = DecagonPoint(i + 1)
                 /\ TriangleAfter(i).B = DecagonPoint(i + 1)

C6_Witness ==
    /\ SunBuilt
    /\ config.initialSize > 0
    /\ triangles[1].C = triangles[2].C
    /\ triangles[1].C # triangles[2].B
    /\ triangles[10].B = triangles[1].B

\* the edge ratio of t is the one of its kind: |AB| / |BC| is phi for Thick and
\* 1/phi for Thin ("AB/BC"), or the same with |BC| / |AB| ("BC/AB")
EdgeRatioOfKind(t, convention) ==
    LET ab == Dist2(t.A, t.B)
        bc == Dist2(t.B, t.C)
    IN  IF (t.type = Thick) <=> (convention = "AB/BC")
        THEN ab = Phi2Times(bc)
        ELSE bc = Phi2Times(ab)

\* C7: every triangle in the collection, after any number of rounds from the
\* sun, has the edge ratio of the kind it is tagged with (phi for Thick, 1/phi
\* for Thin), under one reading of which two edges are meant.
C7_EdgeRatio ==
    \E convention \in {"AB/BC", "BC/AB"} :
        \A i \in 1..Len(triangles) : EdgeRatioOfKind(triangles[i], convention)

\* C8: the children of subdivide(t) partition t: every division point lies on
\* the edge of t it divides, and the areas of the children add up to the area
\* of t.
C8_AreaConservation ==
    Called =>
        /\ SumArea2(children) = Area2(tri)
        /\ tri.type = Thin => OnSegment(children[1].B, tri.A, tri.B)
        /\ tri.type = Thick =>
               /\ OnSegment(children[2].A, tri.B, tri.A)
               /\ OnSegment(children[1].A, tri.B, tri.C)

C8_Witness ==
    /\ Called
    /\ tri.type = Thick
    /\ depth = 1
    /\ NSign(Area2(tri)) > 0
    /\ \A i \in 1..Len(children) : NSign(Area2(children[i])) > 0

\* C9: generate() replaces the collection at each round: inside the loop every
\* triangle has generation gen and kind Thin or Thick, and once generate() has
\* returned (generations >= 0) every triangle has generation
\* config.generations.
C9_WholesaleReplacement ==
    /\ pc = "loop" =>
           \A i \in 1..Len(triangles) :
               /\ triangles[i].generation = gen
               /\ triangles[i].type \in {Thin, Thick}
    /\ Generated =>
           \A i \in 1..Len(triangles) :
               /\ triangles[i].generation = config.generations
               /\ triangles[i].type \in {Thin, Thick}

C9_Witness ==
    /\ Generated
    /\ config.generations = 2
    /\ Len(triangles) > 10
    /\ before > 10

\* C10: after generate() with g >= 0 the numbers of Thick and of Thin triangles
\* are both even, so countRhombi() loses nothing: twice its thick plus twice
\* its thin is the number of triangles.
C10_EvenCounts ==
    Generated =>
        /\ NumThick(triangles) % 2 = 0
        /\ NumThin(triangles) % 2 = 0
        /\ rhombi # NoResult =>
               /\ rhombi = countRhombi(triangles)
               /\ 2 * rhombi.thick + 2 * rhombi.thin = Len(triangles)

C10_Witness ==
    /\ Generated
    /\ rhombi # NoResult
    /\ rhombi.thin > 0
    /\ rhombi.thick > rhombi.thin

\* ------------------------------------ generate() followed by kinds only
\* The collection is followed as the number of triangles of each kind.
\* subdivide() chooses its branch by this.type alone and writes the kinds of
\* the children as literals, so a round of generate() replaces every triangle
\* of a kind by the kinds that subdivide() gives a triangle of that kind.
MaxRounds == 10

kindsOf(ts) == [thick |-> NumThick(ts), thin |-> NumThin(ts)]

\* the kinds of the children subdivide() returns for a triangle of kind type
childKinds(type) ==
    kindsOf(subdivide(RobinsonTriangle(Origin, Origin, Origin, type, 0)))

\* newTriangles after the forEach of one round
censusRound(c) ==
    [thick |-> c.thick * childKinds(Thick).thick + c.thin * childKinds(Thin).thick,
     thin  |-> c.thick * childKinds(Thick).thin + c.thin * childKinds(Thin).thin]

\* the kinds initializeSunConfiguration() leaves
censusSun(size) ==
    kindsOf(initializeSunConfiguration(<< >>, [width |-> 0, height |-> 0],
                [generations |-> 0, initialSize |-> size]))

CensusInit ==
    /\ TilingIdle
    /\ TriIdle
    /\ ApproxIdle
    /\ AppIdle
    /\ \E g \in 0..MaxRounds, s \in 0..MaxSize :
          census = [NoCensus EXCEPT !.generations = g, !.initialSize = s]

\* generate(): this.initializeSunConfiguration(); gen = 0
CensusEnter ==
    /\ census.pc \in {"idle", "returned"}
    /\ census' = [census EXCEPT !.pc = "loop", !.gen = 0,
                     !.thick = censusSun(census.initialSize).thick,
                     !.thin = censusSun(census.initialSize).thin,
                     !.last = 0]
    /\ UNCHANGED tilingVars
    /\ UNCHANGED triVars
    /\ UNCHANGED <<ra, cls, flat, torus>>

\* generate(): one round, gen < this.config.generations
CensusRound ==
    /\ census.pc = "loop"
    /\ census.gen < census.generations
    /\ census' = [census EXCEPT !.gen = census.gen + 1,
                     !.thick = censusRound(census).thick,
                     !.thin = censusRound(census).thin,
                     !.last = census.thick + census.thin]
    /\ UNCHANGED tilingVars
    /\ UNCHANGED triVars
    /\ UNCHANGED <<ra, cls, flat, torus>>

\* generate(): the loop condition fails, the method returns
CensusReturn ==
    /\ census.pc = "loop"
    /\ ~(census.gen < census.generations)
    /\ census' = [census EXCEPT !.pc = "returned"]
    /\ UNCHANGED tilingVars
    /\ UNCHANGED triVars
    /\ UNCHANGED <<ra, cls, flat, torus>>

CensusNext == CensusEnter \/ CensusRound \/ CensusReturn

CensusSpec == CensusInit /\ [][CensusNext]_vars

CensusTotal == census.thick + census.thin

\* The kinds-only collection is the collection of generate(): in every state
\* of the full tiling the kinds of this.triangles are those the census
\* reaches after the same number of rounds.
RECURSIVE censusAfter(_, _)
censusAfter(size, g) ==
    IF g = 0 THEN censusSun(size) ELSE censusRound(censusAfter(size, g - 1))

CensusIsTheCollection ==
    (pc = "loop" \/ Generated) =>
        kindsOf(triangles) = censusAfter(config.initialSize, gen)

\* C11 as stated: generate() with generations = 8 leaves more than 100,000
\* triangles.
C11_CountAsStated ==
    (census.pc = "returned" /\ census.generations = 8) => CensusTotal > 100000

\* C11: generate() with generations = 8 leaves 25,840 triangles, fewer than
\* 100,000; a round multiplies the number of triangles by at least 2.5 and at
\* most 3, and the number left first exceeds 100,000 at generations = 10.
C11_TriangleCount ==
    /\ (census.pc = "returned" /\ census.generations = 8) => CensusTotal = 25840
    /\ census.pc = "returned" =>
          (CensusTotal > 100000 <=> census.generations >= 10)
    /\ (census.pc = "loop" /\ census.gen >= 1) =>
          /\ 5 * census.last <= 2 * CensusTotal
          /\ CensusTotal <= 3 * census.last

C11_Witness ==
    /\ census.pc = "returned"
    /\ census.generations = 8
    /\ census.gen = 8
    /\ CensusTotal = 25840

\* ------------------------------------------------------------ determinism
\* generate() on a newly constructed object: the sun, then the rounds
RECURSIVE roundsFrom(_, _)
roundsFrom(ts, n) == IF n <= 0 THEN ts ELSE roundsFrom(nextRound(ts), n - 1)

generateOnNew(cv, cfg) ==
    roundsFrom(initializeSunConfiguration(<< >>, cv, cfg), cfg.generations)

\* C12: whatever the collection held when generate() was called, and whatever
\* was called on the object before, the list generate() leaves is the list a
\* newly constructed object with the same canvas and configuration gets:
\* same length, order, kinds, generations and vertices.
C12_Determinism ==
    Generated => triangles = generateOnNew(canvas, config)

C12_Witness ==
    /\ done = "generate"
    /\ before > 10
    /\ config.generations >= 2
    /\ config.initialSize >= 1
    /\ Len(triangles) = before

\* ------------------------------------------- the numbers of the approximator
\* A finite double is a rational number: a number is the pair <<n, d>> in
\* lowest terms with d > 0, and d = 0 marks the three values that are not
\* finite.  The arithmetic is exact; the rounding of IEEE 754 is left out.
MaxNumer == 60
MaxDenom == 51
MaxCut == 3

Infinity == <<1, 0>>
NegInfinity == <<-1, 0>>
NaN == <<0, 0>>

Abs(n) == IF n < 0 THEN -n ELSE n

\* while (b !== 0) { temp = b; b = a % b; a = temp; }
\* (a function of the pair, so that each remainder is computed once)
remainders[pair \in Nat \X Nat] ==
    IF pair[2] = 0 THEN pair[1]
    ELSE remainders[<<pair[2], pair[1] % pair[2]>>]
Euclid(a, b) == remainders[<<a, b>>]

\* gcd(a, b); its callers pass integers, which Math.round leaves as they are
gcd(a, b) == Euclid(Abs(a), Abs(b))

\* the number n / d, d # 0, in lowest terms
lowest[pair \in Int \X Int] ==
    LET g == Euclid(Abs(pair[1]), Abs(pair[2]))
        s == IF pair[2] < 0 THEN -1 ELSE 1
    IN  <<(s * pair[1]) \div g, (s * pair[2]) \div g>>
Q(n, d) == lowest[<<n, d>>]
R(n) == <<n, 1>>

isFinite(x) == x[2] # 0
QNeg(x) == <<-x[1], x[2]>>
MathAbs(x) == <<Abs(x[1]), x[2]>>
MathFloor(x) == x[1] \div x[2]

\* x - y
QSub(x, y) ==
    IF isFinite(x) /\ isFinite(y)
    THEN LET g == Euclid(x[2], y[2])
         IN  Q(x[1] * (y[2] \div g) - y[1] * (x[2] \div g),
               x[2] * (y[2] \div g))
    ELSE IF x = NaN \/ y = NaN THEN NaN
    ELSE IF isFinite(x) THEN QNeg(y)
    ELSE IF isFinite(y) THEN x
    ELSE IF x = y THEN NaN ELSE x

\* x / y (the sign of a zero is not followed)
QDiv(x, y) ==
    IF x = NaN \/ y = NaN THEN NaN
    ELSE IF isFinite(x) /\ isFinite(y)
    THEN IF y[1] # 0
         THEN LET g == Euclid(Abs(x[1]), Abs(y[1]))
                  f == Euclid(x[2], y[2])
                  unit == IF g = 0 THEN 1 ELSE g
              IN  Q((x[1] \div unit) * (y[2] \div f),
                    (x[2] \div f) * (y[1] \div unit))
         ELSE IF x[1] > 0 THEN Infinity
         ELSE IF x[1] < 0 THEN NegInfinity ELSE NaN
    ELSE IF isFinite(x) THEN R(0)
    ELSE IF ~isFinite(y) THEN NaN
    ELSE IF y[1] < 0 THEN QNeg(x) ELSE x

\* x < y
QLess(x, y) ==
    IF x = NaN \/ y = NaN THEN FALSE
    ELSE IF isFinite(x) /\ isFinite(y) THEN x[1] * y[2] < y[1] * x[2]
    ELSE IF x = y THEN FALSE
    ELSE x = NegInfinity \/ y = Infinity

\* n / d > 10^-e and n / d < 10^-e for n >= 0, d > 0, without forming 10^e
RECURSIVE AboveTenTo(_, _, _), BelowTenTo(_, _, _)
AboveTenTo(n, d, e) == IF e = 0 THEN n > d ELSE AboveTenTo(n, d \div 10, e - 1)
BelowTenTo(n, d, e) ==
    IF e = 0 THEN n < d ELSE BelowTenTo(n, (d + 9) \div 10, e - 1)

\* x > 1e-e and x < 1e-e
QAbove(x, e) ==
    IF x = NaN THEN FALSE
    ELSE IF ~isFinite(x) THEN x = Infinity
    ELSE x[1] > 0 /\ AboveTenTo(x[1], x[2], e)
QBelow(x, e) ==
    IF x = NaN THEN FALSE
    ELSE IF ~isFinite(x) THEN x = NegInfinity
    ELSE x[1] <= 0 \/ BelowTenTo(x[1], x[2], e)

\* The doubles the library names.  Each stands for the double by a rational
\* that has the double's continued fraction as far as a denominator bound of
\* 10000 can reach, so rationalApproximation treats it as it treats the double.
MathSQRT2 == <<19601, 13860>>
MathSqrt3 == <<51409, 29681>>
MathSqrt5 == <<51841, 23184>>
MathPI == <<103993, 33102>>
MathPIOver2 == <<51819, 32989>>
MathPIOver3 == <<34546, 32989>>
MathPIOver4 == <<25732, 32763>>
MathPIOver6 == <<17273, 32989>>
GoldenRatio == <<46368, 28657>>
GoldenRatioMinus1 == <<17711, 28657>>
MathE == <<124288, 45723>>
TwoPI == <<103993, 16551>>

NamedDoubles == {MathSQRT2, MathSqrt3, MathSqrt5, MathPI, MathPIOver2,
                 MathPIOver3, MathPIOver4, MathPIOver6, GoldenRatio,
                 GoldenRatioMinus1, MathE, TwoPI}
Fractions == {Q(n, d) : n \in -MaxNumer..MaxNumer, d \in 1..MaxDenom}
NonFinite == {Infinity, NegInfinity, NaN}
\* a number 5e-7 below 1/2: nearer to 1/2 than 1e-6, further than 1e-10
AlmostHalf == <<500000, 1000001>>
Doubles == Fractions \cup NamedDoubles \cup {AlmostHalf} \cup NonFinite

\* ------------------------------------------------- rationalApproximation()
DefaultMaxDenominator == 10000
ErrorDigits == 9
RemainderDigits == 10

\* variant: no test of isFinite, the sentinel is what every input gets
RaEnter_sentinelOnly(x, maxDenominator) ==
    [NoFrame EXCEPT !.pc = "returned", !.arg = x,
                    !.maxDenominator = maxDenominator, !.p = 1, !.q = 0]

\* variant: the recurrence is seeded with 2 in place of 1 (h1 = 2, k2 = 2)
RaEnter_seededTwo(x, maxDenominator) ==
    IF ~isFinite(x)
    THEN [NoFrame EXCEPT !.pc = "returned", !.arg = x,
                         !.maxDenominator = maxDenominator, !.p = 1, !.q = 0]
    ELSE LET sign == IF QLess(x, R(0)) THEN -1 ELSE 1
             xAbs == MathAbs(x)
             a == MathFloor(xAbs)
             h1 == 2
             h2 == 0
             k1 == 0
             k2 == 2
         IN  [pc |-> "loop", arg |-> x, maxDenominator |-> maxDenominator,
              sign |-> sign, x |-> xAbs, a |-> a, b |-> QSub(xAbs, R(a)),
              h |-> a * h1 + h2, h1 |-> h1, h2 |-> h2,
              k |-> a * k1 + k2, k1 |-> k1, k2 |-> k2,
              p |-> 0, q |-> 0]

\* from the entry to the first test of the while condition
RaEnter(x, maxDenominator) ==
    IF ~isFinite(x)
    THEN [NoFrame EXCEPT !.pc = "returned", !.arg = x,
                         !.maxDenominator = maxDenominator, !.p = 1, !.q = 0]
    ELSE LET sign == IF QLess(x, R(0)) THEN -1 ELSE 1
             xAbs == MathAbs(x)
             a == MathFloor(xAbs)
             h1 == 1
             h2 == 0
             k1 == 0
             k2 == 1
         IN  [pc |-> "loop", arg |-> x, maxDenominator |-> maxDenominator,
              sign |-> sign, x |-> xAbs, a |-> a, b |-> QSub(xAbs, R(a)),
              h |-> a * h1 + h2, h1 |-> h1, h2 |-> h2,
              k |-> a * k1 + k2, k1 |-> k1, k2 |-> k2,
              p |-> 0, q |-> 0]

\* variant: the error threshold is 1e-3
whileCondition_coarse(f) ==
    /\ QAbove(MathAbs(QSub(f.x, QDiv(R(f.h), R(f.k)))), 3)
    /\ f.k < f.maxDenominator
    /\ QAbove(f.b, RemainderDigits)

\* Math.abs(x - h / k) > 1e-9 && k < maxDenominator && b > 1e-10
whileCondition(f) ==
    /\ QAbove(MathAbs(QSub(f.x, QDiv(R(f.h), R(f.k)))), ErrorDigits)
    /\ f.k < f.maxDenominator
    /\ QAbove(f.b, RemainderDigits)

\* variant: k2 keeps its first value, k2 = k1 is left out
nextConvergent_staleK2(f) ==
    LET b1 == QDiv(R(1), f.b)
        a == MathFloor(b1)
        h2 == f.h1
        h1 == f.h
        k1 == f.k
    IN  [f EXCEPT !.a = a, !.b = QSub(b1, R(a)),
                  !.h2 = h2, !.h1 = h1, !.k1 = k1,
                  !.h = a * h1 + h2, !.k = a * k1 + f.k2]

\* the assignments of the loop body
nextConvergent(f) ==
    LET b1 == QDiv(R(1), f.b)
        a == MathFloor(b1)
        h2 == f.h1
        h1 == f.h
        k2 == f.k1
        k1 == f.k
    IN  [f EXCEPT !.a = a, !.b = QSub(b1, R(a)),
                  !.h2 = h2, !.h1 = h1, !.k2 = k2, !.k1 = k1,
                  !.h = a * h1 + h2, !.k = a * k1 + k2]

\* variant: the convergent that overshoots is the one returned
loopBody_overshoot(f) ==
    LET g == nextConvergent(f)
    IN  IF g.k > g.maxDenominator
        THEN [g EXCEPT !.pc = "returned", !.p = g.sign * g.h, !.q = g.k]
        ELSE g

\* the loop body: if (k > maxDenominator) return { p: sign * h1, q: k1 }
loopBody(f) ==
    LET g == nextConvergent(f)
    IN  IF g.k > g.maxDenominator
        THEN [g EXCEPT !.pc = "returned", !.p = g.sign * g.h1, !.q = g.k1]
        ELSE g

\* variant: the sign is not put back
loopExit_unsigned(f) == [f EXCEPT !.pc = "returned", !.p = f.h, !.q = f.k]

\* return { p: sign * h, q: k }
loopExit(f) == [f EXCEPT !.pc = "returned", !.p = f.sign * f.h, !.q = f.k]

\* the whole call
RECURSIVE RaRun(_)
RaRun(f) ==
    IF f.pc = "returned" THEN f
    ELSE IF whileCondition(f) THEN RaRun(loopBody(f))
    ELSE RaRun(loopExit(f))

rationalApproximation(x, maxDenominator) ==
    LET f == RaRun(RaEnter(x, maxDenominator)) IN [p |-> f.p, q |-> f.q]

MaxDenominators == 0..MaxCut \cup {DefaultMaxDenominator}

ApproxInit == TilingIdle /\ TriIdle /\ CensusIdle /\ ApproxIdle /\ AppIdle

ApproxFrame == <<canvas, config, triangles, pc, gen, done, before, rhombi,
                 tri, children, depth, census, flat, torus>>

\* rationalApproximation(x, maxDenominator) is called
RaCall ==
    /\ ra.pc = "idle"
    /\ cls.fn = "none"
    /\ \E x \in Doubles, maxDenominator \in MaxDenominators :
          ra' = RaEnter(x, maxDenominator)
    /\ UNCHANGED cls
    /\ UNCHANGED ApproxFrame

\* the while condition holds: one pass of the loop body
RaIterate ==
    /\ ra.pc = "loop"
    /\ whileCondition(ra)
    /\ ra' = loopBody(ra)
    /\ UNCHANGED cls
    /\ UNCHANGED ApproxFrame

\* variant: the statement after the loop does not return
RaExit_noReturn ==
    /\ ra.pc = "loop"
    /\ ~whileCondition(ra)
    /\ UNCHANGED ra
    /\ UNCHANGED cls
    /\ UNCHANGED ApproxFrame

\* the while condition fails: the return after the loop
RaExit ==
    /\ ra.pc = "loop"
    /\ ~whileCondition(ra)
    /\ ra' = loopExit(ra)
    /\ UNCHANGED cls
    /\ UNCHANGED ApproxFrame

\* ------------------------------- TorusGeometry.rationalApproximation()
\* the copy of the 3D app, written as the loop it is: the while statement with
\* the variables it reads and writes as arguments
RECURSIVE torusWhile(_, _, _, _, _, _, _, _)
torusWhile(x, maxDenominator, sign, b, h, h1, k, k1) ==
    IF /\ QAbove(MathAbs(QSub(x, QDiv(R(h), R(k)))), ErrorDigits)
       /\ k < maxDenominator
       /\ QAbove(b, RemainderDigits)
    THEN LET inverse == QDiv(R(1), b)
             a == MathFloor(inverse)
             rest == QSub(inverse, R(a))
             hNext == a * h + h1
             kNext == a * k + k1
         IN  IF kNext > maxDenominator
             THEN [p |-> sign * h, q |-> k]
             ELSE torusWhile(x, maxDenominator, sign, rest, hNext, h, kNext, k)
    ELSE [p |-> sign * h, q |-> k]

torusRationalApproximation(x, maxDenominator) ==
    IF ~isFinite(x) THEN [p |-> 1, q |-> 0]
    ELSE LET sign == IF QLess(x, R(0)) THEN -1 ELSE 1
             xAbs == MathAbs(x)
             a == MathFloor(xAbs)
         IN  torusWhile(xAbs, maxDenominator, sign, QSub(xAbs, R(a)),
                        a * 1 + 0, 1, a * 0 + 1, 0)

\* ------------------------------------------------------------ the classifiers
MaxRationalDenominator == 50
SlopeToleranceDigits == 10
SlopeListToleranceDigits == 4
SlopeSymbolDigits == 14
WindingSymbolDigits == 10
WindingToleranceDigits == 6

\* Math.abs(x - y) < 1e-e.  Two numbers whose thousandths differ by two or
\* more are further apart than any tolerance in use, which is decided before
\* the difference is formed.
closerThan(x, y, e) ==
    IF ~isFinite(x) \/ ~isFinite(y) THEN QBelow(MathAbs(QSub(x, y)), e)
    ELSE IF x = y THEN TRUE
    ELSE IF Abs((x[1] * 1000) \div x[2] - (y[1] * 1000) \div y[2]) >= 2
    THEN FALSE
    ELSE QBelow(MathAbs(QSub(x, y)), e)

\* knownIrrationals of classifySlope, in the order of the array
slopeIrrationals ==
    << [value |-> MathSQRT2, symbol |-> "sqrt2"],
       [value |-> MathSqrt3, symbol |-> "sqrt3"],
       [value |-> MathSqrt5, symbol |-> "sqrt5"],
       [value |-> MathPI, symbol |-> "pi"],
       [value |-> MathPIOver2, symbol |-> "pi/2"],
       [value |-> MathPIOver3, symbol |-> "pi/3"],
       [value |-> MathPIOver4, symbol |-> "pi/4"],
       [value |-> MathPIOver6, symbol |-> "pi/6"],
       [value |-> GoldenRatio, symbol |-> "phi"],
       [value |-> GoldenRatioMinus1, symbol |-> "phi-1"],
       [value |-> MathE, symbol |-> "e"],
       [value |-> TwoPI, symbol |-> "2pi"] >>

\* knownIrrationals of classifyWindingNumbers
windingIrrationals ==
    << [value |-> MathSQRT2, symbol |-> "sqrt2"],
       [value |-> MathSqrt3, symbol |-> "sqrt3"],
       [value |-> MathSqrt5, symbol |-> "sqrt5"],
       [value |-> MathPI, symbol |-> "pi"],
       [value |-> GoldenRatio, symbol |-> "phi"],
       [value |-> MathE, symbol |-> "e"] >>

\* the entries the for loop over knownIrrationals accepts, and the first
matching(list, x, e) == {i \in 1..Len(list) : closerThan(x, list[i].value, e)}
firstOf(S) == CHOOSE i \in S : \A j \in S : i <= j

\* variant: the denominator is not capped
classifySlope_noCap(slope, tolerance) ==
    IF ~isFinite(slope)
    THEN [isRational |-> TRUE, p |-> R(1), q |-> R(0),
          classification |-> "Vertical", symbolName |-> "null"]
    ELSE LET found == matching(slopeIrrationals, slope, SlopeSymbolDigits)
             approx == rationalApproximation(slope, DefaultMaxDenominator)
             isRational ==
                 QBelow(MathAbs(QSub(slope,
                     QDiv(R(approx.p), R(approx.q)))), tolerance)
         IN  IF found # {}
             THEN [isRational |-> FALSE, p |-> R(approx.p), q |-> R(approx.q),
                   classification |-> "Dense",
                   symbolName |-> slopeIrrationals[firstOf(found)].symbol]
             ELSE IF isRational
             THEN [isRational |-> TRUE, p |-> R(approx.p), q |-> R(approx.q),
                   classification |-> "Periodic", symbolName |-> "null"]
             ELSE [isRational |-> FALSE, p |-> R(approx.p), q |-> R(approx.q),
                   classification |-> "Dense", symbolName |-> "null"]

\* variant: the loop over knownIrrationals is left out
classifySlope_noWhitelist(slope, tolerance) ==
    IF ~isFinite(slope)
    THEN [isRational |-> TRUE, p |-> R(1), q |-> R(0),
          classification |-> "Vertical", symbolName |-> "null"]
    ELSE LET approx == rationalApproximation(slope, DefaultMaxDenominator)
             isRational ==
                 /\ QBelow(MathAbs(QSub(slope,
                        QDiv(R(approx.p), R(approx.q)))), tolerance)
                 /\ approx.q <= MaxRationalDenominator
         IN  IF isRational
             THEN [isRational |-> TRUE, p |-> R(approx.p), q |-> R(approx.q),
                   classification |-> "Periodic", symbolName |-> "null"]
             ELSE [isRational |-> FALSE, p |-> R(approx.p), q |-> R(approx.q),
                   classification |-> "Dense", symbolName |-> "null"]

\* classifySlope(slope, tolerance), tolerance = 1e-tolerance
classifySlope(slope, tolerance) ==
    IF ~isFinite(slope)
    THEN [isRational |-> TRUE, p |-> R(1), q |-> R(0),
          classification |-> "Vertical", symbolName |-> "null"]
    ELSE LET found == matching(slopeIrrationals, slope, SlopeSymbolDigits)
             isRational(approx) ==
                 /\ QBelow(MathAbs(QSub(slope,
                        QDiv(R(approx.p), R(approx.q)))), tolerance)
                 /\ approx.q <= MaxRationalDenominator
             result(approx) ==
                 IF found # {}
                 THEN [isRational |-> FALSE,
                       p |-> R(approx.p), q |-> R(approx.q),
                       classification |-> "Dense",
                       symbolName |-> slopeIrrationals[firstOf(found)].symbol]
                 ELSE IF isRational(approx)
                 THEN [isRational |-> TRUE,
                       p |-> R(approx.p), q |-> R(approx.q),
                       classification |-> "Periodic", symbolName |-> "null"]
                 ELSE [isRational |-> FALSE,
                       p |-> R(approx.p), q |-> R(approx.q),
                       classification |-> "Dense", symbolName |-> "null"]
         IN  result(rationalApproximation(slope, DefaultMaxDenominator))

\* variant: q === 0 is not tested, the ratio p / q is formed at once
classifyWindingNumbers_noZeroTest(p, q) ==
    LET ratio == QDiv(p, q)
        found == matching(windingIrrationals, ratio, WindingSymbolDigits)
        approx == torusRationalApproximation(ratio, DefaultMaxDenominator)
        isRational ==
            /\ QBelow(MathAbs(QSub(ratio,
                   QDiv(R(approx.p), R(approx.q)))), WindingToleranceDigits)
            /\ approx.q <= MaxRationalDenominator
        g == gcd(approx.p, approx.q)
    IN  IF found # {}
        THEN [isRational |-> FALSE, p |-> p, q |-> q,
              classification |-> "Dense",
              symbolName |-> windingIrrationals[firstOf(found)].symbol]
        ELSE IF isRational
        THEN [isRational |-> TRUE,
              p |-> QDiv(R(approx.p), R(g)), q |-> QDiv(R(approx.q), R(g)),
              classification |-> "Periodic", symbolName |-> "undefined"]
        ELSE [isRational |-> FALSE, p |-> p, q |-> q,
              classification |-> "Dense", symbolName |-> "undefined"]

\* classifyWindingNumbers(p, q); the objects without a symbolName property
\* have it "undefined"
classifyWindingNumbers(p, q) ==
    IF q = R(0)
    THEN [isRational |-> TRUE, p |-> p, q |-> R(0),
          classification |-> "Periodic", symbolName |-> "undefined"]
    ELSE LET ratio == QDiv(p, q)
             found == matching(windingIrrationals, ratio, WindingSymbolDigits)
             approx == torusRationalApproximation(ratio, DefaultMaxDenominator)
             isRational ==
                 /\ QBelow(MathAbs(QSub(ratio,
                        QDiv(R(approx.p), R(approx.q)))), WindingToleranceDigits)
                 /\ approx.q <= MaxRationalDenominator
             g == gcd(approx.p, approx.q)
         IN  IF found # {}
             THEN [isRational |-> FALSE, p |-> p, q |-> q,
                   classification |-> "Dense",
                   symbolName |-> windingIrrationals[firstOf(found)].symbol]
             ELSE IF isRational
             THEN [isRational |-> TRUE,
                   p |-> QDiv(R(approx.p), R(g)), q |-> QDiv(R(approx.q), R(g)),
                   classification |-> "Periodic", symbolName |-> "undefined"]
             ELSE [isRational |-> FALSE, p |-> p, q |-> q,
                   classification |-> "Dense", symbolName |-> "undefined"]

Tolerances == {SlopeToleranceDigits, SlopeListToleranceDigits}
Integers51 == {R(n) : n \in -MaxDenom..MaxDenom}
WindingPairs ==
    (Integers51 \X Integers51)
    \cup ((NamedDoubles \cup {AlmostHalf} \cup NonFinite) \X {R(-1), R(0), R(1)})

\* classifySlope(slope, tolerance) is called and returns
ClassifySlope ==
    /\ ra.pc = "idle"
    /\ cls.fn = "none"
    /\ \E slope \in Doubles, tolerance \in Tolerances :
          cls' = [NoCall EXCEPT !.fn = "classifySlope", !.slope = slope,
                                !.tolerance = tolerance,
                                !.out = classifySlope(slope, tolerance)]
    /\ UNCHANGED ra
    /\ UNCHANGED ApproxFrame

\* classifyWindingNumbers(p, q) is called and returns
ClassifyWindingNumbers ==
    /\ ra.pc = "idle"
    /\ cls.fn = "none"
    /\ \E w \in WindingPairs :
          cls' = [NoCall EXCEPT !.fn = "classifyWindingNumbers",
                                !.p = w[1], !.q = w[2],
                                !.out = classifyWindingNumbers(w[1], w[2])]
    /\ UNCHANGED ra
    /\ UNCHANGED ApproxFrame

ApproxNext ==
    \/ RaCall
    \/ RaIterate
    \/ RaExit
    \/ ClassifySlope
    \/ ClassifyWindingNumbers

ApproxSpec == ApproxInit /\ [][ApproxNext]_vars

ApproxTypeOK ==
    /\ ra.pc \in {"idle", "loop", "returned"}
    /\ cls.fn \in {"none", "classifySlope", "classifyWindingNumbers"}

\* ------------------------------------------------ claims on the approximator
Returned == ra.pc = "returned"
ByDefault == ra.maxDenominator = DefaultMaxDenominator

\* C13: for every rational x = n/d in lowest terms with n >= 0 and
\* 1 <= d <= 50, rationalApproximation(x, 10000) returns exactly p = n and
\* q = d (0.75 gives (3, 4), 2/3 gives (2, 3), 1.5 gives (3, 2)).
C13_RationalRoundTrip ==
    (Returned /\ ByDefault /\ isFinite(ra.arg)
        /\ ra.arg[1] >= 0 /\ ra.arg[2] <= 50) =>
            /\ ra.p = ra.arg[1]
            /\ ra.q = ra.arg[2]

C13_Witness ==
    /\ Returned
    /\ ByDefault
    /\ ra.arg = <<31, 50>>
    /\ ra.k1 > 1
    /\ ra.p = 31
    /\ ra.q = 50

\* C14: for every finite x and every maxDenominator >= 1 the q returned
\* satisfies 1 <= q <= maxDenominator; when the next convergent's k exceeds
\* maxDenominator the previous convergent (h1, k1) is what is returned, never
\* the one that overshoots.
C14_DenominatorBound ==
    (Returned /\ isFinite(ra.arg) /\ ra.maxDenominator >= 1) =>
        /\ 1 <= ra.q
        /\ ra.q <= ra.maxDenominator
        /\ ra.k > ra.maxDenominator =>
              /\ ra.p = ra.sign * ra.h1
              /\ ra.q = ra.k1

C14_Witness ==
    /\ Returned
    /\ ra.arg = <<3, 7>>
    /\ ra.maxDenominator = 3
    /\ ra.k = 7
    /\ ra.p = 1
    /\ ra.q = 2

\* C15: for every input that is not finite (Infinity, -Infinity, NaN) the
\* call returns the sentinel p = 1, q = 0, and q = 0 is returned for no
\* finite input.
C15_NonFiniteSentinel ==
    Returned =>
        /\ ~isFinite(ra.arg) => (ra.p = 1 /\ ra.q = 0)
        /\ isFinite(ra.arg) => ra.q # 0

C15_Witness ==
    /\ Returned
    /\ ra.arg = NaN
    /\ ra.p = 1
    /\ ra.q = 0

\* C16: for every finite x > 0 and every maxDenominator, when the call on x
\* returned (p, q) the call on -x returns (-p, q); the denominator returned
\* is never negative.
C16_SignSymmetry ==
    Returned =>
        /\ ra.q >= 0
        /\ (isFinite(ra.arg) /\ ra.arg[1] > 0) =>
              rationalApproximation(QNeg(ra.arg), ra.maxDenominator)
                  = [p |-> -ra.p, q |-> ra.q]

C16_Witness ==
    /\ Returned
    /\ ByDefault
    /\ ra.arg = <<5, 8>>
    /\ ra.p = 5
    /\ ra.q = 8
    /\ rationalApproximation(<<-5, 8>>, DefaultMaxDenominator).p = -5

\* ------------------------------------------------- claims on the classifiers
BySlope == cls.fn = "classifySlope"
ByWinding == cls.fn = "classifyWindingNumbers"

\* the ratio a call classifies, its whitelist and its tolerances
ClsRatio == IF BySlope THEN cls.slope ELSE QDiv(cls.p, cls.q)
ClsList == IF BySlope THEN slopeIrrationals ELSE windingIrrationals
ClsSymbolDigits == IF BySlope THEN SlopeSymbolDigits ELSE WindingSymbolDigits
ClsToleranceDigits == IF BySlope THEN cls.tolerance ELSE WindingToleranceDigits
Listed == matching(ClsList, ClsRatio, ClsSymbolDigits) # {}
\* a call that reached the ratio
Classified == BySlope \/ (ByWinding /\ cls.q # R(0))

\* C17: for a finite ratio that matches no whitelisted constant the classifier
\* reports Periodic (isRational = true) exactly when (p, q) =
\* rationalApproximation(ratio, 10000) satisfies |ratio - p/q| < tolerance and
\* q <= 50; a ratio whose lowest terms have denominator 51 is Dense, one with
\* denominator 50 is Periodic.
C17_PeriodicIffSmallDenominator ==
    (Classified /\ isFinite(ClsRatio) /\ ~Listed) =>
        LET approx == rationalApproximation(ClsRatio, DefaultMaxDenominator)
            within == QBelow(MathAbs(QSub(ClsRatio,
                          QDiv(R(approx.p), R(approx.q)))), ClsToleranceDigits)
        IN  /\ cls.out.isRational <=> (within /\ approx.q <= 50)
            /\ cls.out.classification = "Periodic" <=> cls.out.isRational
            /\ cls.out.classification = "Dense" <=> ~cls.out.isRational
            /\ ClsRatio[2] = 51 => cls.out.classification = "Dense"
            /\ ClsRatio[2] = 50 => cls.out.classification = "Periodic"

C17_Witness ==
    /\ BySlope
    /\ cls.slope = <<1, 51>>
    /\ cls.tolerance = SlopeToleranceDigits
    /\ cls.out.classification = "Dense"
    /\ cls.out.q = R(51)

NoSymbol == {"null", "undefined"}

\* C18: the whitelist is consulted before the rational test: a finite ratio
\* within the named-constant tolerance of a constant on the classifier's list
\* is reported Dense, isRational = false, with the symbol of the first such
\* constant, whatever rationalApproximation returns for it; and no call at
\* all reports a symbol together with isRational = true.
C18_WhitelistFirst ==
    /\ (Classified /\ isFinite(ClsRatio) /\ Listed) =>
          /\ cls.out.isRational = FALSE
          /\ cls.out.classification = "Dense"
          /\ cls.out.symbolName =
                 ClsList[firstOf(matching(ClsList, ClsRatio, ClsSymbolDigits))].symbol
    /\ (Classified /\ ClsRatio = MathSQRT2) => cls.out.symbolName = "sqrt2"
    /\ (Classified /\ ClsRatio = GoldenRatio) => cls.out.symbolName = "phi"
    /\ (BySlope \/ ByWinding) =>
          ~(cls.out.isRational /\ cls.out.symbolName \notin NoSymbol)

C18_Witness ==
    /\ BySlope
    /\ cls.slope = MathSQRT2
    /\ cls.tolerance = SlopeListToleranceDigits
    /\ cls.out.isRational = FALSE
    /\ cls.out.symbolName = "sqrt2"
    /\ cls.out.p = R(8119)
    /\ cls.out.q = R(5741)

ZeroDenominatorCall ==
    \/ ByWinding /\ cls.q = R(0)
    \/ BySlope /\ ~isFinite(cls.slope)

\* C19 as stated: classifyWindingNumbers(p, 0) for every p and classifySlope(s)
\* for every s that is not finite return isRational = true, q = 0 and the
\* classification Periodic.
C19_ZeroDenominatorAsStated ==
    ZeroDenominatorCall =>
        /\ cls.out.isRational
        /\ cls.out.q = R(0)
        /\ cls.out.classification = "Periodic"

\* C19: both return isRational = true with q = 0; classifyWindingNumbers(p, 0)
\* reports the p it was given and the classification Periodic, classifySlope(s)
\* for s not finite reports p = 1 and the classification Vertical.
C19_ZeroDenominator ==
    /\ (ByWinding /\ cls.q = R(0)) =>
          /\ cls.out.isRational
          /\ cls.out.p = cls.p
          /\ cls.out.q = R(0)
          /\ cls.out.classification = "Periodic"
    /\ (BySlope /\ ~isFinite(cls.slope)) =>
          /\ cls.out.isRational
          /\ cls.out.p = R(1)
          /\ cls.out.q = R(0)
          /\ cls.out.classification = "Vertical"

C19_Witness ==
    /\ BySlope
    /\ cls.slope = NegInfinity
    /\ cls.out.isRational
    /\ cls.out.q = R(0)
    /\ cls.out.classification = "Vertical"

\* C20: whenever classifySlope or classifyWindingNumbers reports
\* isRational = true with a q other than 0, the p and q reported are integers
\* with q >= 1 and gcd(|p|, q) = 1.
C20_ReducedFraction ==
    ((BySlope \/ ByWinding) /\ cls.out.isRational /\ cls.out.q # R(0)) =>
        /\ cls.out.p[2] = 1
        /\ cls.out.q[2] = 1
        /\ cls.out.q[1] >= 1
        /\ Euclid(Abs(cls.out.p[1]), cls.out.q[1]) = 1

C20_Witness ==
    /\ ByWinding
    /\ cls.p = R(4)
    /\ cls.q = R(-6)
    /\ cls.out.isRational
    /\ cls.out.p = R(-2)
    /\ cls.out.q = R(3)

\* ------------------------------------------------- the two copies compared
symbolOf(object) ==
    IF object.symbolName \in NoSymbol THEN "none" ELSE object.symbolName

\* the 3D classifier on the ratio r / 1
windingOf(r) == classifyWindingNumbers(r, R(1))

DefaultSlopeCall ==
    BySlope /\ isFinite(cls.slope) /\ cls.tolerance = SlopeToleranceDigits

CopiesOfApproximationAgree ==
    Returned =>
        torusRationalApproximation(ra.arg, ra.maxDenominator)
            = [p |-> ra.p, q |-> ra.q]

\* the constants one classifier names and the other does not
OnlySlopeNames(r) ==
    /\ matching(slopeIrrationals, r, SlopeSymbolDigits) # {}
    /\ matching(windingIrrationals, r, WindingSymbolDigits) = {}
OnlyWindingNames(r) ==
    /\ matching(slopeIrrationals, r, SlopeSymbolDigits) = {}
    /\ matching(windingIrrationals, r, WindingSymbolDigits) # {}

\* an approximation with a small denominator whose error lies between the
\* two tolerances, 1e-10 and 1e-6
BetweenTolerances(r) ==
    LET approx == rationalApproximation(r, DefaultMaxDenominator)
        error == MathAbs(QSub(r, QDiv(R(approx.p), R(approx.q))))
    IN  /\ matching(slopeIrrationals, r, SlopeSymbolDigits) = {}
        /\ matching(windingIrrationals, r, WindingSymbolDigits) = {}
        /\ approx.q <= MaxRationalDenominator
        /\ ~QBelow(error, SlopeToleranceDigits)
        /\ QBelow(error, WindingToleranceDigits)

SunOfNoRadius ==
    /\ done = "initializeSunConfiguration"
    /\ config.initialSize <= 0

GeneratedBelowZero ==
    /\ done = "generate"
    /\ config.generations < 0

\* C22: building the sun with a radius (initialSize) <= 0 fails with
\* InvalidConfiguration and produces no triangles.
C22_SunRadiusRefused ==
    SunOfNoRadius => triangles = << >>

\* C23: generate() with a generation count below 0 fails with
\* InvalidConfiguration and returns no partial output, instead of returning
\* the generation-0 sun.
C23_NegativeGenerationsRefused ==
    GeneratedBelowZero => triangles = << >>

\* ------------------------------------------------- the convergents of |x|
\* the convergents of n / d by Euclid's algorithm on the integers n and d
RECURSIVE convergentsFrom(_, _, _, _, _, _)
convergentsFrom(n, d, h1, h2, k1, k2) ==
    LET a == n \div d
        h == a * h1 + h2
        k == a * k1 + k2
    IN  {<<h, k>>} \cup
        (IF n % d = 0 THEN {} ELSE convergentsFrom(d, n % d, h, h1, k, k1))

Convergents(x) == convergentsFrom(x[1], x[2], 1, 0, 0, 1)

InTheLoop == ra.pc \in {"loop", "returned"} /\ isFinite(ra.arg)

\* C27: at loop entry and after every iteration |h * k1 - h1 * k| = 1, hence
\* every returned pair with q >= 1 is in lowest terms and equals a convergent
\* of |x|.
C27_Determinant ==
    /\ InTheLoop => Abs(ra.h * ra.k1 - ra.h1 * ra.k) = 1
    /\ (Returned /\ ra.q >= 1) =>
          /\ Euclid(Abs(ra.p), ra.q) = 1
          /\ <<Abs(ra.p), ra.q>> \in Convergents(MathAbs(ra.arg))

C27_Witness ==
    /\ Returned
    /\ ra.arg = MathPI
    /\ ra.maxDenominator = DefaultMaxDenominator
    /\ ra.h = 103993 /\ ra.k = 33102
    /\ ra.h1 = 355 /\ ra.k1 = 113
    /\ ra.p = 355 /\ ra.q = 113

\* ------------------------------------------------- the call runs to its end
LiveNumer == 12
LiveDenom == 7
LiveDoubles ==
    {Q(n, d) : n \in -LiveNumer..LiveNumer, d \in 1..LiveDenom}
        \cup NamedDoubles \cup NonFinite

\* rationalApproximation(x, maxDenominator) is entered
RaStart ==
    /\ ra.pc = "idle"
    /\ cls.fn = "none"
    /\ \E x \in LiveDoubles, maxDenominator \in MaxDenominators :
          ra' = RaEnter(x, maxDenominator)
    /\ UNCHANGED cls
    /\ UNCHANGED ApproxFrame

RaNext ==
    \/ RaStart
    \/ RaIterate
    \/ RaExit

\* a call of rationalApproximation alone.  The function is synchronous: once
\* entered, the engine runs each pass of the loop and the return after it, so
\* a step that is possible is taken.
RaSpec ==
    /\ ApproxInit
    /\ [][RaNext]_vars
    /\ WF_vars(RaIterate)
    /\ WF_vars(RaExit)

\* a pass of the loop other than the first, which starts with k1 = 0
LaterPass == ra.pc = "loop" /\ whileCondition(ra) /\ ra.k1 # 0

\* C25: rationalApproximation terminates for every finite x and finite
\* maxDenominator: from the second loop iteration on k strictly increases, so
\* the loop exits by the error test, the remainder test or the denominator
\* bound.
C25_Terminates ==
    /\ [][LaterPass => ra'.k > ra.k]_vars
    /\ (ra.pc = "loop") ~> Returned

C25_Witness ==
    /\ Returned
    /\ ra.arg = GoldenRatio
    /\ ra.maxDenominator = DefaultMaxDenominator
    /\ ra.k > DefaultMaxDenominator
    /\ ra.q = ra.k1
    /\ ra.k1 > 1000

\* ------------------------------------------------------ the flat-torus app
\* FlatTorusApp is in the sources three times: in mathUtils.js (it tracks the
\* preset in use: "tracked"), at the top of flatTorusApp.js ("direction") and
\* below it in the same file, the form with two clicked points ("points").
\* Drawing, the cursor and the mouse position of the angle preview are left
\* out, and so is the speed slider: animationSpeed keeps the 1 it is given at
\* start.  animationProgress counts ticks of 0.02.
MaxGrid == 1
MaxTicks == 2
MaxPending == 2
TicksPerWrap == 50
VerticalDigits == 10

Null == << >>
Versions == {"tracked", "direction", "points"}

\* x + y and x * y for finite x and y
QAdd(x, y) == QSub(x, QNeg(y))
QMul(x, y) ==
    LET g == Euclid(Abs(x[1]), y[2])
        f == Euclid(Abs(y[1]), x[2])
    IN  Q((x[1] \div g) * (y[1] \div f), (x[2] \div f) * (y[2] \div g))

\* x % 1.0 has the sign of x
MathTrunc(x) == IF x[1] < 0 THEN -((-x[1]) \div x[2]) ELSE x[1] \div x[2]
wrap(x) ==
    LET result == QSub(x, R(MathTrunc(x)))
    IN  IF QLess(result, R(0)) THEN QAdd(result, R(1)) ELSE result

calculateSlope(point1, point2) ==
    LET dx == QSub(point2[1], point1[1])
        dy == QSub(point2[2], point1[2])
    IN  IF QBelow(MathAbs(dx), VerticalDigits)
        THEN IF QLess(R(0), dy) THEN Infinity ELSE NegInfinity
        ELSE QDiv(dy, dx)

PresetNames == {"half", "two-thirds", "three-fifths", "sqrt2", "phi", "pi-4"}
getPresetSlope(presetName) ==
    CASE presetName = "half" -> Q(1, 2)
      [] presetName = "two-thirds" -> Q(2, 3)
      [] presetName = "three-fifths" -> Q(3, 5)
      [] presetName = "sqrt2" -> MathSQRT2
      [] presetName = "phi" -> GoldenRatio
      [] presetName = "pi-4" -> MathPIOver4

getPresetDirectionPoint(slope) ==
    LET dx == Q(1, 2)
        dy == QMul(slope, dx)
    IN  <<wrap(dx), wrap(dy)>>

getPresetPoints(slope) == <<<<R(0), R(0)>>, getPresetDirectionPoint(slope)>>

\* the object after the constructor, init() and setupEventListeners(); the
\* markup, which says whether the play button starts disabled, is not in the
\* sources
FlatTorusApp(version, playDisabled) ==
    [version |-> version,
     origin |-> <<Q(1, 2), Q(1, 2)>>,
     directionPoint |-> Null,
     clickedPoints |-> << >>,
     currentPreset |-> "null",
     slope |-> Null,
     slopeInfo |-> NoObject,
     isAnimating |-> FALSE,
     animationProgress |-> 0,
     animationSpeed |-> 1,
     maxWraps |-> 30,
     isDragging |-> FALSE,
     draggedPointIndex |-> -1,
     playDisabled |-> playDisabled,
     pending |-> 0,        \* callbacks given to requestAnimationFrame
     advanced |-> 0,       \* how often the last frame's callbacks advanced
     pressed |-> FALSE,    \* the mouse button is down on the canvas
     last |-> "new",       \* the last handler that ran
     arg |-> "null"]       \* the preset it was given

noDirection(a) ==
    IF a.version = "points"
    THEN Len(a.clickedPoints) < 2
    ELSE a.directionPoint = Null

wrapsOf(a, info) ==
    IF a.version = "tracked" THEN 200
    ELSE IF info.isRational THEN 30 ELSE 200

\* (slope and info are bound as members of one-element sets: each is worked
\* out once, as the code's two constants are)
updateVisualization(a) ==
    IF noDirection(a) THEN a
    ELSE CHOOSE drawn \in
             {[a EXCEPT !.slope = slope[1], !.slopeInfo = slope[2],
                        !.maxWraps = wrapsOf(a, slope[2])] :
                 slope \in
                     {<<s, classifySlope(s, SlopeToleranceDigits)>> :
                         s \in {IF a.version = "points"
                                THEN calculateSlope(a.clickedPoints[1],
                                                    a.clickedPoints[2])
                                ELSE calculateSlope(a.origin,
                                                    a.directionPoint)}}} :
             TRUE

pause(a) == [a EXCEPT !.isAnimating = FALSE, !.playDisabled = FALSE]

animate(a) ==
    IF ~a.isAnimating THEN a
    ELSE LET progress == a.animationProgress + a.animationSpeed
             looped == IF a.version # "tracked"
                          /\ progress > a.maxWraps * TicksPerWrap
                       THEN 0 ELSE progress
             drawn == updateVisualization([a EXCEPT !.animationProgress = looped])
         IN  [drawn EXCEPT !.pending = @ + 1, !.advanced = @ + 1]

play(a) ==
    IF noDirection(a) THEN a
    ELSE animate([a EXCEPT !.isAnimating = TRUE, !.playDisabled = TRUE])

clear(a) ==
    [pause(a) EXCEPT !.directionPoint = Null, !.clickedPoints = << >>,
                     !.currentPreset = "null", !.slope = Null,
                     !.slopeInfo = NoObject, !.animationProgress = 0]

handleCanvasClick(a, point) ==
    IF a.isDragging THEN a
    ELSE IF a.version = "points"
    THEN IF Len(a.clickedPoints) < 2
         THEN updateVisualization([a EXCEPT !.clickedPoints = Append(@, point)])
         ELSE updateVisualization(pause([a EXCEPT !.clickedPoints = <<point>>]))
    ELSE updateVisualization(
             [pause([a EXCEPT !.directionPoint = point,
                              !.currentPreset = "null"])
                 EXCEPT !.animationProgress = 0])

\* Math.sqrt(dx * dx + dy * dy) < 0.03, compared as squares
near(point, other) ==
    LET dx == MathAbs(QSub(point[1], other[1]))
        dy == MathAbs(QSub(point[2], other[2]))
        reach == Q(3, 100)
    IN  IF ~QLess(dx, reach) \/ ~QLess(dy, reach) THEN FALSE
        ELSE IF dx = R(0) \/ dy = R(0) THEN TRUE
        ELSE QLess(QAdd(QMul(dx, dx), QMul(dy, dy)), QMul(reach, reach))

handleMouseDown(a, point) ==
    IF a.version = "points"
    THEN LET hits == {i \in 1..Len(a.clickedPoints) :
                          near(point, a.clickedPoints[i])}
         IN  IF hits = {} THEN a
             ELSE [a EXCEPT !.isDragging = TRUE,
                            !.draggedPointIndex =
                                (CHOOSE i \in hits : \A j \in hits : i <= j) - 1]
    ELSE IF a.directionPoint = Null THEN a
    ELSE IF near(point, a.directionPoint)
    THEN [a EXCEPT !.isDragging = TRUE, !.draggedPointIndex = 1]
    ELSE a

Dragging(a) == a.isDragging /\ a.draggedPointIndex # -1

handleMouseMove(a, point) ==
    IF ~Dragging(a)
    THEN IF a.version # "points" /\ ~a.isAnimating
         THEN updateVisualization(a)
         ELSE a
    ELSE IF a.version = "points"
    THEN updateVisualization(
             [a EXCEPT !.clickedPoints[a.draggedPointIndex + 1] = point,
                       !.animationProgress = 0])
    ELSE updateVisualization(
             [a EXCEPT !.directionPoint = point, !.animationProgress = 0])

handleMouseUp(a) ==
    IF a.isDragging
    THEN [a EXCEPT !.isDragging = FALSE, !.draggedPointIndex = -1]
    ELSE a

mouseLeave(a) ==
    LET b == handleMouseUp(a)
    IN  IF b.version # "points" /\ ~b.isAnimating
        THEN updateVisualization(b)
        ELSE b

applyPreset(a, presetName) ==
    LET slope == getPresetSlope(presetName)
        b == pause(a)
        c == IF a.version = "points"
             THEN [b EXCEPT !.clickedPoints = getPresetPoints(slope)]
             ELSE [b EXCEPT !.directionPoint = getPresetDirectionPoint(slope),
                            !.currentPreset =
                                IF a.version = "tracked" THEN presetName ELSE @]
    IN  CHOOSE drawn \in
            {updateVisualization(set) :
                set \in {[c EXCEPT !.animationProgress = 0]}} : TRUE

\* the callbacks of one frame, run one after the other
RECURSIVE callbacks(_, _)
callbacks(a, n) ==
    IF n = 0 THEN a
    ELSE CHOOSE after \in {callbacks(b, n - 1) : b \in {animate(a)}} : TRUE

frame(a) == callbacks([a EXCEPT !.pending = 0, !.advanced = 0], a.pending)

\* -------------------------------------------------------- the 3D torus app
\* TorusApp of torusRenderer.js (the copy in part_003 has the same handlers
\* and a travelling marker).  Angles are counted in units of pi, so that the
\* presets' angles are rationals; animationProgress counts ticks of 0.05.
UpdateInterval == 3

\* angle % TWO_PI has the sign of angle
wrapAngle(angle) ==
    LET result == QSub(angle, R(2 * MathTrunc(QDiv(angle, R(2)))))
    IN  IF QLess(result, R(0)) THEN QAdd(result, R(2)) ELSE result

shortestPath(d) ==
    IF QLess(R(1), MathAbs(d))
    THEN IF QLess(R(0), d) THEN QSub(d, R(2)) ELSE QAdd(d, R(2))
    ELSE d

MathMax(x, y) == IF QLess(x, y) THEN y ELSE x

calculateWindingNumbers(point1, point2) ==
    LET dtheta == shortestPath(QSub(point2[1], point1[1]))
        dphi == shortestPath(QSub(point2[2], point1[2]))
        largest == MathMax(MathAbs(dtheta), MathAbs(dphi))
    IN  IF QBelow(largest, VerticalDigits) THEN <<R(0), R(0)>>
        ELSE <<QDiv(dtheta, largest), QDiv(dphi, largest)>>

PresetNames3D == {"1-1", "2-3", "3-5", "sqrt2", "phi", "pi"}
getPresetWindingNumbers(presetName) ==
    CASE presetName = "1-1" -> <<R(1), R(1)>>
      [] presetName = "2-3" -> <<R(2), R(3)>>
      [] presetName = "3-5" -> <<R(3), R(5)>>
      [] presetName = "sqrt2" -> <<MathSQRT2, R(1)>>
      [] presetName = "phi" -> <<GoldenRatio, R(1)>>
      [] presetName = "pi" -> <<MathPI, R(1)>>

\* p * t * 2 * Math.PI with t = 0.3, in units of pi
getPresetDirectionPoint3D(presetName) ==
    LET w == getPresetWindingNumbers(presetName)
        t == Q(3, 10)
    IN  <<wrapAngle(QMul(QMul(w[1], t), R(2))),
          wrapAngle(QMul(QMul(w[2], t), R(2)))>>

\* the object after the constructor and init(), which calls animate() once
TorusApp(playDisabled) ==
    [version |-> "3d",
     originPoint |-> <<R(0), R(0)>>,
     directionPoint |-> Null,
     windingNumbers |-> Null,
     windingInfo |-> NoObject,
     isAnimating |-> FALSE,
     animationProgress |-> 0,
     animationSpeed |-> 1,
     maxProgress |-> 60,
     frameCounter |-> 0,
     playDisabled |-> playDisabled,
     pending |-> 1,
     advanced |-> 0,
     last |-> "new",
     arg |-> "null"]

updateVisualization3D(a) ==
    IF a.directionPoint = Null THEN a
    ELSE CHOOSE drawn \in
             {[a EXCEPT !.windingNumbers = w[1], !.windingInfo = w[2],
                        !.maxProgress = IF w[2].isRational THEN 200 ELSE 500] :
                 w \in {<<n, classifyWindingNumbers(n[1], n[2])>> :
                           n \in {calculateWindingNumbers(a.originPoint,
                                                          a.directionPoint)}}} :
             TRUE

\* variant: play() does not look at the direction point
play3D_unguarded(a) == [a EXCEPT !.isAnimating = TRUE, !.playDisabled = TRUE]

play3D(a) ==
    IF a.directionPoint = Null THEN a
    ELSE [a EXCEPT !.isAnimating = TRUE, !.playDisabled = TRUE]

pause3D(a) == [a EXCEPT !.isAnimating = FALSE, !.playDisabled = FALSE]

clear3D(a) ==
    [pause3D(a) EXCEPT !.directionPoint = Null, !.windingNumbers = Null,
                       !.windingInfo = NoObject, !.animationProgress = 0]

\* dragging: this.controls.isDragging; intersects: the point hit, or Null
handleCanvasClick3D(a, dragging, intersects) ==
    IF dragging THEN a
    ELSE IF intersects = Null THEN a
    ELSE updateVisualization3D(
             pause3D([a EXCEPT !.directionPoint = intersects,
                               !.animationProgress = 0]))

applyPreset3D(a, presetName) ==
    CHOOSE drawn \in
        {updateVisualization3D(set) :
            set \in {[clear3D(a) EXCEPT
                        !.directionPoint = getPresetDirectionPoint3D(presetName),
                        !.animationProgress = 0]}} : TRUE

\* one callback; error: where the try block throws, if it does
animate3D(a, error) ==
    LET b == [a EXCEPT !.pending = @ + 1]
        moves == b.isAnimating /\ b.directionPoint # Null
        counted == IF b.windingInfo.isRational
                   THEN IF b.frameCounter + 1 >= UpdateInterval
                        THEN 0 ELSE b.frameCounter + 1
                   ELSE b.frameCounter
        c == IF moves
             THEN [b EXCEPT !.animationProgress = @ + b.animationSpeed,
                            !.frameCounter = counted, !.advanced = @ + 1]
             ELSE b
    IN  CASE error = "none" -> c
          [] error = "before" -> pause3D(b)
          [] error = "after" -> pause3D(c)

frame3D(a, error) ==
    animate3D([a EXCEPT !.pending = 0, !.advanced = 0], error)

\* ------------------------------------------ the events of the two pages
GridPoints2D ==
    {<<Q(i, MaxGrid), Q(j, MaxGrid)>> : i \in 0..MaxGrid, j \in 0..MaxGrid}
GridAngles ==
    {<<Q(i, MaxGrid), Q(j, MaxGrid)>> :
        i \in 0..(2 * MaxGrid - 1), j \in 0..(2 * MaxGrid - 1)}

AppFrame == <<canvas, config, triangles, pc, gen, done, before, rhombi,
              tri, children, depth, census, ra, cls>>

AppInit ==
    /\ TilingIdle
    /\ TriIdle
    /\ CensusIdle
    /\ ApproxIdle
    /\ \/ /\ \E version \in Versions, playDisabled \in BOOLEAN :
                flat = FlatTorusApp(version, playDisabled)
          /\ torus = NoApp
       \/ /\ flat = NoApp
          /\ \E playDisabled \in BOOLEAN : torus = TorusApp(playDisabled)

FlatLoaded == flat.version # "none"
TorusLoaded == torus.version # "none"

\* a click event follows the release of the button
FlatClick ==
    /\ FlatLoaded
    /\ ~flat.pressed
    /\ \E point \in GridPoints2D :
          flat' = [handleCanvasClick(flat, point) EXCEPT
                      !.last = "handleCanvasClick", !.arg = "null"]
    /\ UNCHANGED torus
    /\ UNCHANGED AppFrame

FlatMouseDown ==
    /\ FlatLoaded
    /\ ~flat.pressed
    /\ \E point \in GridPoints2D :
          flat' = [handleMouseDown(flat, point) EXCEPT
                      !.pressed = TRUE, !.last = "other",
                      !.arg = "null"]
    /\ UNCHANGED torus
    /\ UNCHANGED AppFrame

\* mousemove while no point is dragged (where the mouse is plays no part)
FlatHover ==
    /\ FlatLoaded
    /\ ~Dragging(flat)
    /\ \E point \in {<<R(0), R(0)>>} :
          flat' = [handleMouseMove(flat, point) EXCEPT
                      !.last = "other", !.arg = "null"]
    /\ UNCHANGED torus
    /\ UNCHANGED AppFrame

\* mousemove while a point is dragged
FlatDrag ==
    /\ FlatLoaded
    /\ Dragging(flat)
    /\ \E point \in GridPoints2D :
          flat' = [handleMouseMove(flat, point) EXCEPT
                      !.last = "drag", !.arg = "null"]
    /\ UNCHANGED torus
    /\ UNCHANGED AppFrame

FlatMouseUp ==
    /\ FlatLoaded
    /\ flat.pressed
    /\ flat' = [handleMouseUp(flat) EXCEPT
                   !.pressed = FALSE, !.last = "other", !.arg = "null"]
    /\ UNCHANGED torus
    /\ UNCHANGED AppFrame

FlatMouseLeave ==
    /\ FlatLoaded
    /\ flat' = [mouseLeave(flat) EXCEPT
                   !.pressed = FALSE, !.last = "other", !.arg = "null"]
    /\ UNCHANGED torus
    /\ UNCHANGED AppFrame

\* the play button, when it is not disabled.  The buttons are pressed with
\* the pointer, which is then not held down on the canvas.
FlatPlay ==
    /\ FlatLoaded
    /\ ~flat.pressed
    /\ ~flat.playDisabled
    /\ flat.pending < MaxPending
    /\ flat.animationProgress < MaxTicks
    /\ flat' = [play(flat) EXCEPT
                   !.advanced = flat.advanced, !.last = "play", !.arg = "null"]
    /\ UNCHANGED torus
    /\ UNCHANGED AppFrame

FlatPause ==
    /\ FlatLoaded
    /\ ~flat.pressed
    /\ flat' = [pause(flat) EXCEPT !.last = "other", !.arg = "null"]
    /\ UNCHANGED torus
    /\ UNCHANGED AppFrame

FlatClear ==
    /\ FlatLoaded
    /\ ~flat.pressed
    /\ flat' = [clear(flat) EXCEPT !.last = "clear", !.arg = "null"]
    /\ UNCHANGED torus
    /\ UNCHANGED AppFrame

FlatPreset ==
    /\ FlatLoaded
    /\ ~flat.pressed
    /\ \E presetName \in PresetNames :
          flat' = [applyPreset(flat, presetName) EXCEPT
                      !.last = "applyPreset", !.arg = presetName]
    /\ UNCHANGED torus
    /\ UNCHANGED AppFrame

\* the browser runs the callbacks requested for this frame
FlatFrame ==
    /\ FlatLoaded
    /\ flat.pending > 0
    /\ flat.isAnimating => flat.animationProgress < MaxTicks
    /\ flat' = [frame(flat) EXCEPT !.last = "other", !.arg = "null"]
    /\ UNCHANGED torus
    /\ UNCHANGED AppFrame

TorusClick ==
    /\ TorusLoaded
    /\ \E dragging \in BOOLEAN, intersects \in GridAngles \cup {Null} :
          torus' = [handleCanvasClick3D(torus, dragging, intersects) EXCEPT
                       !.last = IF dragging \/ intersects = Null
                                THEN "missed" ELSE "handleCanvasClick",
                       !.arg = "null"]
    /\ UNCHANGED flat
    /\ UNCHANGED AppFrame

TorusPlay ==
    /\ TorusLoaded
    /\ ~torus.playDisabled
    /\ torus' = [play3D(torus) EXCEPT !.last = "play", !.arg = "null"]
    /\ UNCHANGED flat
    /\ UNCHANGED AppFrame

TorusPause ==
    /\ TorusLoaded
    /\ torus' = [pause3D(torus) EXCEPT !.last = "other", !.arg = "null"]
    /\ UNCHANGED flat
    /\ UNCHANGED AppFrame

TorusClear ==
    /\ TorusLoaded
    /\ torus' = [clear3D(torus) EXCEPT !.last = "clear", !.arg = "null"]
    /\ UNCHANGED flat
    /\ UNCHANGED AppFrame

TorusPreset ==
    /\ TorusLoaded
    /\ \E presetName \in PresetNames3D :
          torus' = [applyPreset3D(torus, presetName) EXCEPT
                       !.last = "applyPreset", !.arg = presetName]
    /\ UNCHANGED flat
    /\ UNCHANGED AppFrame

TorusFrame ==
    /\ TorusLoaded
    /\ torus.isAnimating => torus.animationProgress < MaxTicks
    /\ \E error \in {"none", "before", "after"} :
          torus' = [frame3D(torus, error) EXCEPT
                       !.last = "other", !.arg = "null"]
    /\ UNCHANGED flat
    /\ UNCHANGED AppFrame

AppNext ==
    \/ FlatClick
    \/ FlatMouseDown
    \/ FlatHover
    \/ FlatDrag
    \/ FlatMouseUp
    \/ FlatMouseLeave
    \/ FlatPlay
    \/ FlatPause
    \/ FlatClear
    \/ FlatPreset
    \/ FlatFrame
    \/ TorusClick
    \/ TorusPlay
    \/ TorusPause
    \/ TorusClear
    \/ TorusPreset
    \/ TorusFrame

AppSpec == AppInit /\ [][AppNext]_vars

\* ------------------------------------------------- claims about the apps
RationalPresets == {"half", "two-thirds", "three-fifths"}
PresetApplied == FlatLoaded /\ flat.last = "applyPreset"

\* C24: in the flat-torus app, clicking a preset yields the classification of
\* that preset's slope: after applyPreset for 1/2, 2/3 or 3/5 slopeInfo is
\* Periodic with that p/q; for sqrt2, phi or pi/4 slopeInfo is Dense
\* (isRational false).
C24_PresetClassified ==
    PresetApplied =>
        IF flat.arg \in RationalPresets
        THEN /\ flat.slopeInfo.classification = "Periodic"
             /\ flat.slopeInfo.q # R(0)
             /\ QDiv(flat.slopeInfo.p, flat.slopeInfo.q)
                    = getPresetSlope(flat.arg)
        ELSE ~flat.slopeInfo.isRational

\* C26: in the flat-torus app at most one requestAnimationFrame chain is
\* pending: under every interleaving of play, pause, canvas click, preset,
\* clear and frame callbacks (pause followed by play before the pending frame
\* fires included), animationProgress advances at most once per frame.
C26_OneChain ==
    FlatLoaded => (flat.pending <= 1 /\ flat.advanced <= 1)

RationalPresets3D == {"1-1", "2-3", "3-5"}
PresetApplied3D == TorusLoaded /\ torus.last = "applyPreset"

\* C28: in the 3D-torus app a rational preset (p, q) in {(1,1), (2,3), (3,5)}
\* round-trips through the direction point: after applyPreset, windingInfo is
\* Periodic and its reduced ratio equals the preset's p/q.
C28_PresetRoundTrip ==
    (PresetApplied3D /\ torus.arg \in RationalPresets3D) =>
        /\ torus.windingInfo.isRational
        /\ torus.windingInfo.classification = "Periodic"
        /\ torus.windingInfo.q # R(0)
        /\ QDiv(torus.windingInfo.p, torus.windingInfo.q)
               = QDiv(getPresetWindingNumbers(torus.arg)[1],
                      getPresetWindingNumbers(torus.arg)[2])

PointsChanged ==
    FlatLoaded
        /\ flat.last \in {"handleCanvasClick", "drag", "applyPreset", "clear"}

\* C29: in the flat-torus app every event that changes the points defining
\* the geodesic (canvas click, dragging a point, applying a preset, clear)
\* leaves animationProgress = 0.
C29_ProgressReset ==
    PointsChanged => flat.animationProgress = 0

AnimatingHasDirection ==
    /\ FlatLoaded => (flat.isAnimating => ~noDirection(flat))
    /\ TorusLoaded => (torus.isAnimating => torus.directionPoint # Null)

PlayNeedsDirection ==
    /\ (FlatLoaded /\ flat.last = "play" /\ noDirection(flat)) =>
          ~flat.isAnimating
    /\ (TorusLoaded /\ torus.last = "play" /\ torus.directionPoint = Null) =>
          ~torus.isAnimating

\* C30 as stated: in both torus apps isAnimating = true implies a direction
\* point; play() with no direction leaves isAnimating false; clear() and a new
\* canvas click always leave isAnimating false.
C30_AnimatingAsStated ==
    /\ AnimatingHasDirection
    /\ PlayNeedsDirection
    /\ (FlatLoaded /\ flat.last \in {"clear", "handleCanvasClick"}) =>
          ~flat.isAnimating
    /\ (TorusLoaded
            /\ torus.last \in {"clear", "handleCanvasClick", "missed"}) =>
          ~torus.isAnimating

\* C30: in both torus apps isAnimating = true implies a direction point (two
\* clicked points in the two-point form); play() with no direction leaves
\* isAnimating false; clear() and a canvas click that sets a point leave
\* isAnimating false (a click on the 3D canvas that misses the torus or comes
\* while the camera is dragged sets no point and does not pause).
C30_Animating ==
    /\ AnimatingHasDirection
    /\ PlayNeedsDirection
    /\ (FlatLoaded /\ flat.last \in {"clear", "handleCanvasClick"}) =>
          ~flat.isAnimating
    /\ (TorusLoaded /\ torus.last \in {"clear", "handleCanvasClick"}) =>
          ~torus.isAnimating

C30_Witness ==
    /\ TorusLoaded
    /\ torus.last = "missed"
    /\ torus.isAnimating
    /\ torus.directionPoint # Null
    /\ torus.animationProgress > 0

====
